---- MODULE Spec2Model ----
(***************************************************************************)
(* A model of generate-recipes-json.py: the front-matter parser, the       *)
(* ingredient-section extractor, the record builder and the directory      *)
(* orchestrator.                                                           *)
(*                                                                         *)
(* Text is modelled line by line.  A document is a sequence of lines and   *)
(* stands for the text "\n".join(lines): a trailing newline is a final     *)
(* blank line.  A line is a record                                         *)
(*    k    : "marker"  the line ---                                        *)
(*           "kv"      key: value      (a colon, no leading dash)          *)
(*           "dash"    - item          (item "" is the bare line -)        *)
(*           "blank"   an empty or whitespace-only line                    *)
(*           "text"    any other line without colon, dash or ##            *)
(*           "head"    a markdown heading: d hashes, a blank, the label    *)
(*    key  : the text before the first colon of a kv line, stripped        *)
(*    form : of a kv line, what follows the colon once stripped of blanks  *)
(*           and quotes: "scalar" (val = <<v>>), "inline" (a bracketed     *)
(*           list, val = the comma separated elements written between the  *)
(*           brackets, <<>> being the text []), "empty" (nothing, or "")   *)
(*    val  : see form; of a dash line, <<item>>; of a heading, <<label>>   *)
(*    d    : the number of hashes of a heading, 0 otherwise                *)
(* Lines carry no leading blanks.  A file name is the sequence of its      *)
(* tokens, the dot being a token of its own.                               *)
(***************************************************************************)
EXTENDS Integers, Sequences, FiniteSets, TLC

\* ------------------------------------------------------------ lines

Marker == [k |-> "marker", key |-> "", form |-> "", val |-> <<>>, d |-> 0]
Blank == [k |-> "blank", key |-> "", form |-> "", val |-> <<>>, d |-> 0]
Text == [k |-> "text", key |-> "", form |-> "", val |-> <<>>, d |-> 0]
Scalar(key, v) == [k |-> "kv", key |-> key, form |-> "scalar", val |-> <<v>>, d |-> 0]
Inline(key, items) == [k |-> "kv", key |-> key, form |-> "inline", val |-> items, d |-> 0]
Empty(key) == [k |-> "kv", key |-> key, form |-> "empty", val |-> <<>>, d |-> 0]
Dash(item) == [k |-> "dash", key |-> "", form |-> "", val |-> <<item>>, d |-> 0]
Heading(depth, label) == [k |-> "head", key |-> "", form |-> "", val |-> <<label>>, d |-> depth]

\* line.strip().startswith('-'): a dash line, and the marker line --- too
StartsWithDash(line) == line.k \in {"dash", "marker"}

\* line.strip()[1:].strip(): what follows the first dash
AfterDash(line) == IF line.k = "marker" THEN "--" ELSE line.val[1]

\* ':' in line and not line.strip().startswith('-')
IsKeyLine(line) == line.k = "kv"

IsBlank(line) == line.k = "blank"

Min(S) == CHOOSE x \in S : \A y \in S : x <= y
Max(S) == CHOOSE x \in S : \A y \in S : x >= y

\* ------------------------------------------------------------ parse_yaml_frontmatter

\* re.match(r'^---\s*\n(.*?)\n---\s*\n', content, re.DOTALL): the lines of
\* group 1, or no match.  The opening --- is line 1; \s*\n swallows blank
\* lines, greedily, so group 1 starts at a line k with only blank lines
\* between it and line 1, the latest such k being tried first; group 1 then
\* ends, lazily, before the first --- line after k that a newline follows.
GroupStarts(lines) ==
    {k \in 2..Len(lines) : \A i \in 2..(k - 1) : IsBlank(lines[i])}

Closings(lines, k) ==
    {m \in (k + 1)..(Len(lines) - 1) : lines[m].k = "marker"}

FrontmatterMatch(lines) ==
    LET starts == IF Len(lines) >= 1 /\ lines[1].k = "marker"
                  THEN {k \in GroupStarts(lines) : Closings(lines, k) # {}}
                  ELSE {}
    IN  IF starts = {}
        THEN [found |-> FALSE, yaml |-> <<>>]
        ELSE LET k == Max(starts)
             IN  [found |-> TRUE,
                  yaml |-> SubSeq(lines, k, Min(Closings(lines, k)) - 1)]

\* A metadata value: a string (list = FALSE, v = <<s>>) or a list of strings.
StrVal(s) == [list |-> FALSE, v |-> <<s>>]
ListVal(items) == [list |-> TRUE, v |-> items]

\* metadata[key] = value
Put(metadata, key, value) ==
    [x \in DOMAIN metadata \cup {key} |-> IF x = key THEN value ELSE metadata[x]]

\* [item.strip().strip('"\'') for item in value.strip('[]').split(',')]:
\* ''.split(',') is [''], so the text [] yields one empty element
InlineItems(val) == IF val = <<>> THEN <<"">> ELSE val

\* The parser's locals before the loop: current_key is <<>> for None.
FMStart ==
    [metadata |-> <<>>, current_key |-> <<>>, list_mode |-> FALSE, raised |-> FALSE]

\* if current_key: neither None nor the empty string
Truthy(current_key) == current_key # <<>> /\ current_key[1] # ""

\* One iteration of the loop over yaml_content.split('\n').
\* metadata[current_key].append(item) raises AttributeError on a string.
FMLine(st, line) ==
    IF st.raised THEN st
    ELSE IF IsKeyLine(line) THEN
        IF line.form = "inline"
        THEN [st EXCEPT !.metadata = Put(@, line.key, ListVal(InlineItems(line.val)))]
        ELSE IF line.form = "scalar"
        THEN [st EXCEPT !.metadata = Put(@, line.key, StrVal(line.val[1]))]
        ELSE [st EXCEPT !.metadata = Put(@, line.key, ListVal(<<>>)),
                        !.current_key = <<line.key>>,
                        !.list_mode = TRUE]
    ELSE IF StartsWithDash(line) /\ st.list_mode THEN
        IF Truthy(st.current_key)
        THEN IF st.metadata[st.current_key[1]].list
             THEN [st EXCEPT !.metadata[st.current_key[1]].v = Append(@, AfterDash(line))]
             ELSE [st EXCEPT !.raised = TRUE]
        ELSE st
    ELSE st

RECURSIVE FMLoop(_, _)
FMLoop(st, yaml) ==
    IF yaml = <<>> THEN st ELSE FMLoop(FMLine(st, Head(yaml)), Tail(yaml))


\* parse_yaml_frontmatter(content): none (no front matter), a raise, or the
\* metadata mapping.
parse_yaml_frontmatter(lines) ==
    LET match == FrontmatterMatch(lines)
        st == FMLoop(FMStart, match.yaml)
    IN  IF ~match.found THEN [kind |-> "none", metadata |-> <<>>]
        ELSE IF st.raised THEN [kind |-> "raise", metadata |-> <<>>]
        ELSE [kind |-> "ok", metadata |-> st.metadata]

\* ------------------------------------------------------------ extract_ingredients

\* re.IGNORECASE on the heading's label
Lower(label) ==
    IF label \in {"Ingredients", "INGREDIENTS", "ingredients"}
    THEN "ingredients" ELSE label

\* A line on which ##\s+Ingredients\s*\n matches: two hashes or more (the
\* pattern is not anchored, so ### holds ##), the label, and a newline after.
IsIngredientsHeading(lines, i) ==
    /\ i < Len(lines)
    /\ lines[i].k = "head"
    /\ lines[i].d >= 2
    /\ Lower(lines[i].val[1]) = "ingredients"

\* (?=\n##|\Z): a line that starts with ##
StartsWithHashes(line) == line.k = "head" /\ line.d >= 2

\* re.search(r'##\s+Ingredients\s*\n(.*?)(?=\n##|\Z)', content, DOTALL | I):
\* the lines of group 1.  \s*\n swallows the blank lines after the heading, so
\* group 1 starts at the first non-blank line k after it (at the last line when
\* all are blank); the lookahead needs a newline, so it is first tried at the
\* end of line k: group 1 ends before the first ## line after line k.
IngredientsSection(lines) ==
    LET n == Len(lines)
        hs == {i \in 1..n : IsIngredientsHeading(lines, i)}
    IN  IF hs = {} THEN [found |-> FALSE, section |-> <<>>]
        ELSE LET h == Min(hs)
                 nonblank == {i \in (h + 1)..n : ~IsBlank(lines[i])}
                 k == IF nonblank = {} THEN n ELSE Min(nonblank)
                 stops == {j \in (k + 1)..n : StartsWithHashes(lines[j])}
                 e == IF stops = {} THEN n ELSE Min(stops) - 1
             IN  [found |-> TRUE, section |-> SubSeq(lines, k, e)]

\* One iteration of the loop over ingredients_section.split('\n')
IngLine(ingredients, line) ==
    IF StartsWithDash(line) /\ AfterDash(line) # ""
    THEN Append(ingredients, AfterDash(line))
    ELSE ingredients

RECURSIVE IngLoop(_, _)
IngLoop(ingredients, section) ==
    IF section = <<>> THEN ingredients
    ELSE IngLoop(IngLine(ingredients, Head(section)), Tail(section))

extract_ingredients(lines) == IngLoop(<<>>, IngredientsSection(lines).section)

\* ------------------------------------------------------------ parse_recipe_file

\* Path(filepath).stem: the name up to its last dot, unless that dot is the
\* first or the last character of the name
LastDot(name) == Max({0} \cup {i \in 1..Len(name) : name[i] = "."})

generate_recipe_id(name) ==
    LET i == LastDot(name)
    IN  IF 1 < i /\ i < Len(name) THEN SubSeq(name, 1, i - 1) ELSE name

\* int(s) of a string: the strings that read as an integer, and their values
IsNumeric(s) == s \in {"2", "6"}
IntOf(s) == IF s = "2" THEN 2 ELSE 6

DefaultServings == 4

Get(metadata, key, default) ==
    IF key \in DOMAIN metadata THEN metadata[key] ELSE default

\* 'category': metadata.get('categories', ['autre'])[0] if the value is a list
\* (IndexError on an empty list), else metadata.get('categories', 'autre')
CategoryRaises(metadata) ==
    "categories" \in DOMAIN metadata
        /\ metadata["categories"].list /\ metadata["categories"].v = <<>>

CategoryOf(metadata) ==
    IF "categories" \in DOMAIN metadata
    THEN metadata["categories"].v[1]
    ELSE "autre"

\* int(metadata.get('servings', 4)): TypeError on a list, ValueError on a
\* string that is no integer
ServingsRaises(metadata) ==
    IF "servings" \notin DOMAIN metadata THEN FALSE
    ELSE IF metadata["servings"].list THEN TRUE
    ELSE ~IsNumeric(metadata["servings"].v[1])

\* The dict display at lines 102-108 evaluates category, then servings
BuildRaises(metadata) ==
    IF CategoryRaises(metadata) THEN TRUE ELSE ServingsRaises(metadata)

ServingsOf(metadata) ==
    IF "servings" \in DOMAIN metadata
    THEN IntOf(metadata["servings"].v[1])
    ELSE DefaultServings

\* The dict built at lines 102-108.  title is whatever the mapping holds.
BuildRecipe(name, metadata, ingredients) ==
    [id |-> generate_recipe_id(name),
     title |-> Get(metadata, "title", StrVal("Sans titre")),
     category |-> CategoryOf(metadata),
     servings |-> ServingsOf(metadata),
     ingredients |-> ingredients]

\* A builder without the test of line 94
NoMetadataUnchecked(parsed) == FALSE

\* if not metadata: None and the empty dict alike
NoMetadata(parsed) == IF parsed.kind = "none" THEN TRUE ELSE parsed.metadata = <<>>

\* parse_recipe_file(filepath): a record (recipe = <<r>>), a warning (no front
\* matter) or an error (the except clause); doc is the file: its name,
\* whether open() and read() succeed, and its lines.
parse_recipe_file(doc) ==
    LET parsed == parse_yaml_frontmatter(doc.lines)
    IN  IF ~doc.readable THEN [kind |-> "error", recipe |-> <<>>]
        ELSE IF parsed.kind = "raise"
        THEN [kind |-> "error", recipe |-> <<>>]
        ELSE IF NoMetadata(parsed)
        THEN [kind |-> "warning", recipe |-> <<>>]
        ELSE IF BuildRaises(parsed.metadata)
        THEN [kind |-> "error", recipe |-> <<>>]
        ELSE [kind |-> "record",
              recipe |-> <<BuildRecipe(doc.name, parsed.metadata,
                                       extract_ingredients(doc.lines))>>]

\* ------------------------------------------------------------ generate_recipes_json

\* recipes_path.glob('*.qmd'): the name ends with .qmd
MatchesGlob(name) ==
    Len(name) >= 2 /\ name[Len(name) - 1] = "." /\ name[Len(name)] = "qmd"

TemplateName == <<"_template", ".", "qmd">>

\* The order of the tokens as strings (their first characters differ):
\* . < _template < a < b < qmd < txt
Rank(token) ==
    CASE token = "." -> 0
      [] token = "_template" -> 1
      [] token = "a" -> 2
      [] token = "b" -> 3
      [] token = "qmd" -> 4
      [] OTHER -> 5

\* The order of paths in one directory: the order of their names as strings
RECURSIVE NameLess(_, _)
NameLess(a, b) ==
    IF a = <<>> THEN b # <<>>
    ELSE IF b = <<>> THEN FALSE
    ELSE IF Head(a) = Head(b) THEN NameLess(Tail(a), Tail(b))
    ELSE Rank(Head(a)) < Rank(Head(b))

Remove(seq, i) == SubSeq(seq, 1, i - 1) \o SubSeq(seq, i + 1, Len(seq))

\* sorted(qmd_files)
RECURSIVE Sorted(_)
Sorted(seq) ==
    IF seq = <<>> THEN <<>>
    ELSE LET i == CHOOSE i \in 1..Len(seq) :
                      \A j \in 1..Len(seq) : ~NameLess(seq[j], seq[i])
         IN  <<seq[i]>> \o Sorted(Remove(seq, i))

\* [f for f in qmd_files if f.name != '_template.qmd']
RECURSIVE ExcludeTemplate(_)
ExcludeTemplate(seq) ==
    IF seq = <<>> THEN <<>>
    ELSE IF Head(seq) = TemplateName THEN ExcludeTemplate(Tail(seq))
    ELSE <<Head(seq)>> \o ExcludeTemplate(Tail(seq))

\* The sequences that list every element of S once: the orders in which
\* glob may enumerate the directory
Orderings(S) ==
    {q \in [1..Cardinality(S) -> S] : \A x \in S : \E i \in DOMAIN q : q[i] = x}

\* A run that goes on without its input directory
DirMissingIgnored(exists) == FALSE

\* if not recipes_path.exists()
DirMissing(exists) == ~exists

\* A loop in which a failed file empties the list
AppendRecipeOrReset(list, result) ==
    IF result.kind = "record" THEN list \o result.recipe ELSE <<>>

\* if recipe: recipes.append(recipe)
AppendRecipe(list, result) ==
    IF result.kind = "record" THEN list \o result.recipe ELSE list

\* ------------------------------------------------------------ state

VARIABLES
    \* generate_recipes_json
    pc,                  \* where the run stands
    recipes_dir_exists,  \* recipes_path.exists()
    files,               \* the input directory: file name -> file
    qmd_files,           \* the list at lines 128-131
    todo,                \* what the for loop has still to visit
    recipes,             \* the list of records
    parent_exists,       \* whether output_path.parent exists
    out_file,            \* the output file: whether it exists, and its array
    writes,              \* how many times the output file was opened for writing
    log,                 \* the lines printed: [tag, name]
    \* parse_yaml_frontmatter's loop, run on a header block
    fm_input, fm_i, fm,
    \* extract_ingredients, run on a text
    ing_input, ing_pc, ing_section, ingredients,
    \* parse_recipe_file, run on a file
    rec_doc, rec_pc, rec_metadata, rec_ingredients, rec_result

run_vars ==
    <<pc, recipes_dir_exists, files, qmd_files, todo, recipes, parent_exists,
      out_file, writes, log>>
fm_vars == <<fm_input, fm_i, fm>>
ing_vars == <<ing_input, ing_pc, ing_section, ingredients>>
rec_vars == <<rec_doc, rec_pc, rec_metadata, rec_ingredients, rec_result>>
vars == <<run_vars, fm_vars, ing_vars, rec_vars>>

\* Each machine at rest, for the specifications that do not run it
RunIdle ==
    /\ pc = "idle" /\ recipes_dir_exists = FALSE /\ files = <<>>
    /\ qmd_files = <<>> /\ todo = <<>> /\ recipes = <<>>
    /\ parent_exists = FALSE /\ out_file = [exists |-> FALSE, data |-> <<>>]
    /\ writes = 0 /\ log = <<>>
FMIdle == fm_input = <<>> /\ fm_i = 0 /\ fm = FMStart
IngIdle ==
    ing_input = <<>> /\ ing_pc = "idle" /\ ing_section = <<>> /\ ingredients = <<>>
RecIdle ==
    /\ rec_doc = [name |-> <<>>, readable |-> FALSE, lines |-> <<>>]
    /\ rec_pc = "idle" /\ rec_metadata = <<>> /\ rec_ingredients = <<>>
    /\ rec_result = [kind |-> "none", recipe |-> <<>>]

\* ------------------------------------------------------------ inputs of the run

\* The most files the input directory holds
MaxFiles == 3

FileNames ==
    {<<"a", ".", "qmd">>, <<"b", ".", "qmd">>, TemplateName,
     <<"a", ".", "txt">>, <<".", "qmd">>, <<".", "qmd", ".", "qmd">>}

Ing == "Ingredients"

\* A recipe, a text without front matter, a recipe whose servings is no
\* number, a file that cannot be read, a recipe with none of the known keys
SoupLines ==
    <<Marker, Scalar("title", "Soup"), Inline("categories", <<"dinner", "easy">>),
      Scalar("servings", "2"), Marker, Heading(2, Ing), Dash("2 carrots"),
      Dash("1 onion"), Blank>>
BareLines == <<Text, Heading(2, Ing), Dash("x"), Blank>>
BadServingsLines ==
    <<Marker, Scalar("title", "Cake"), Scalar("servings", "abc"), Marker, Blank>>
PlainLines == <<Marker, Scalar("author", "x"), Marker, Blank>>

FileSamples ==
    {[readable |-> TRUE, lines |-> SoupLines],
     [readable |-> TRUE, lines |-> BareLines],
     [readable |-> TRUE, lines |-> BadServingsLines],
     [readable |-> FALSE, lines |-> <<>>],
     [readable |-> TRUE, lines |-> PlainLines]}

Directories ==
    UNION {[S -> FileSamples] : S \in {T \in SUBSET FileNames : Cardinality(T) <= MaxFiles}}

DocAt(dir, name) ==
    [name |-> name, readable |-> dir[name].readable, lines |-> dir[name].lines]

StaleRecipe ==
    [id |-> <<"old">>, title |-> StrVal("old"), category |-> "autre",
     servings |-> DefaultServings, ingredients |-> <<>>]

\* ------------------------------------------------------------ the run

RunInit ==
    /\ pc = "start"
    /\ recipes_dir_exists \in BOOLEAN
    /\ files \in (IF recipes_dir_exists THEN Directories ELSE {<<>>})
    /\ qmd_files = <<>>
    /\ todo = <<>>
    /\ recipes = <<>>
    /\ parent_exists \in BOOLEAN
    /\ out_file \in {[exists |-> FALSE, data |-> <<>>]}
                    \cup (IF parent_exists
                          THEN {[exists |-> TRUE, data |-> <<StaleRecipe>>]}
                          ELSE {})
    /\ writes = 0
    /\ log = <<>>

Say(tag, name) == [tag |-> tag, name |-> name]

\* A step of the run leaves the other machines alone
RunOnly == UNCHANGED <<fm_vars, ing_vars, rec_vars>>

\* lines 124-126: the directory is missing, report and return
ReturnNoDir ==
    /\ pc = "start"
    /\ DirMissing(recipes_dir_exists)
    /\ log' = Append(log, Say("ERROR", <<>>))
    /\ pc' = "returned"
    /\ RunOnly
    /\ UNCHANGED <<recipes_dir_exists, files, qmd_files, todo, recipes,
                   parent_exists, out_file, writes>>

\* lines 128-133: glob, in whatever order the directory is enumerated, and
\* drop the template
Discover ==
    /\ pc = "start"
    /\ ~DirMissing(recipes_dir_exists)
    /\ \E q \in Orderings({n \in DOMAIN files : MatchesGlob(n)}) :
          qmd_files' = ExcludeTemplate(q)
    /\ log' = Append(log, Say("Trouve", <<>>))
    /\ pc' = "sort"
    /\ RunOnly
    /\ UNCHANGED <<recipes_dir_exists, files, todo, recipes, parent_exists,
                   out_file, writes>>

\* line 135: for filepath in sorted(qmd_files)
StartLoop ==
    /\ pc = "sort"
    /\ todo' = Sorted(qmd_files)
    /\ pc' = "loop"
    /\ RunOnly
    /\ UNCHANGED <<recipes_dir_exists, files, qmd_files, recipes, parent_exists,
                   out_file, writes, log>>

\* lines 136-141, one iteration: parse_recipe_file returns a record
IterateRecord ==
    /\ pc = "loop"
    /\ todo # <<>>
    /\ parse_recipe_file(DocAt(files, Head(todo))).kind = "record"
    /\ recipes' = AppendRecipe(recipes, parse_recipe_file(DocAt(files, Head(todo))))
    /\ log' = log \o <<Say("Traitement", Head(todo)), Say("OK", Head(todo))>>
    /\ todo' = Tail(todo)
    /\ RunOnly
    /\ UNCHANGED <<pc, recipes_dir_exists, files, qmd_files, parent_exists,
                   out_file, writes>>

\* lines 136-139, one iteration: parse_recipe_file warns (line 95), returns None
IterateWarning ==
    /\ pc = "loop"
    /\ todo # <<>>
    /\ parse_recipe_file(DocAt(files, Head(todo))).kind = "warning"
    /\ recipes' = AppendRecipe(recipes, parse_recipe_file(DocAt(files, Head(todo))))
    /\ log' = log \o <<Say("Traitement", Head(todo)), Say("WARNING", Head(todo))>>
    /\ todo' = Tail(todo)
    /\ RunOnly
    /\ UNCHANGED <<pc, recipes_dir_exists, files, qmd_files, parent_exists,
                   out_file, writes>>

\* lines 136-139, one iteration: parse_recipe_file reports an exception (line 113), returns None
IterateError ==
    /\ pc = "loop"
    /\ todo # <<>>
    /\ parse_recipe_file(DocAt(files, Head(todo))).kind = "error"
    /\ recipes' = AppendRecipe(recipes, parse_recipe_file(DocAt(files, Head(todo))))
    /\ log' = log \o <<Say("Traitement", Head(todo)), Say("ERROR", Head(todo))>>
    /\ todo' = Tail(todo)
    /\ RunOnly
    /\ UNCHANGED <<pc, recipes_dir_exists, files, qmd_files, parent_exists,
                   out_file, writes>>

\* lines 144-145: output_path.parent.mkdir(parents=True, exist_ok=True)
MakeParent ==
    /\ pc = "loop"
    /\ todo = <<>>
    /\ parent_exists' = TRUE
    /\ pc' = "write"
    /\ RunOnly
    /\ UNCHANGED <<recipes_dir_exists, files, qmd_files, todo, recipes,
                   out_file, writes, log>>

\* lines 147-151: open(output_path, 'w'), json.dump, the summary
WriteOutput ==
    /\ pc = "write"
    /\ out_file' = [exists |-> TRUE, data |-> recipes]
    /\ writes' = writes + 1
    /\ log' = Append(log, Say("SUCCESS", <<>>))
    /\ pc' = "done"
    /\ RunOnly
    /\ UNCHANGED <<recipes_dir_exists, files, qmd_files, todo, recipes,
                   parent_exists>>

RunNext ==
    \/ ReturnNoDir
    \/ Discover
    \/ StartLoop
    \/ IterateRecord
    \/ IterateWarning
    \/ IterateError
    \/ MakeParent
    \/ WriteOutput

Init == RunInit /\ FMIdle /\ IngIdle /\ RecIdle
Next == RunNext
Spec == Init /\ [][Next]_vars

\* ------------------------------------------------------------ properties of the run

\* What the run printed and discovered, read off the state
HasQmdExtension(name) ==
    Len(name) >= 2 /\ SubSeq(name, Len(name) - 1, Len(name)) = <<".", "qmd">>

Discovered == {n \in DOMAIN files : HasQmdExtension(n) /\ n # TemplateName}

RECURSIVE Tagged(_, _)
Tagged(lg, tag) ==
    IF lg = <<>> THEN <<>>
    ELSE IF Head(lg).tag = tag THEN <<Head(lg).name>> \o Tagged(Tail(lg), tag)
    ELSE Tagged(Tail(lg), tag)

\* The files the loop visited, the files a record was appended for, the files
\* warned about, in the order printed
Processed == Tagged(log, "Traitement")
Sources == Tagged(log, "OK")
Warned == Tagged(log, "WARNING")

Range(seq) == {seq[i] : i \in DOMAIN seq}
Distinct(seq) == \A i, j \in DOMAIN seq : i # j => seq[i] # seq[j]
Ascending(seq) == \A i, j \in DOMAIN seq : i < j => NameLess(seq[i], seq[j])

NoHeaderBlock(lines) ==
    \/ lines = <<>>
    \/ lines[1].k # "marker"
    \/ ~\E m \in 2..Len(lines) : lines[m].k = "marker"

DeclaresBadServings(lines) ==
    \E i \in DOMAIN lines :
        /\ lines[i].k = "kv" /\ lines[i].key = "servings"
        /\ lines[i].form = "scalar" /\ lines[i].val[1] \notin {"2", "6"}

Failing(dir, n) ==
    \/ ~dir[n].readable
    \/ NoHeaderBlock(dir[n].lines)
    \/ DeclaresBadServings(dir[n].lines)

Restrict(dir, S) == [n \in S |-> dir[n]]

\* The array a run writes for directory dir
RECURSIVE Collect(_, _)
Collect(dir, names) ==
    IF names = <<>> THEN <<>>
    ELSE parse_recipe_file(DocAt(dir, Head(names))).recipe \o Collect(dir, Tail(names))

RunOutput(dir) ==
    LET found == {n \in DOMAIN dir : HasQmdExtension(n) /\ n # TemplateName}
    IN  Collect(dir, Sorted(CHOOSE q \in Orderings(found) : TRUE))

\* C1: failure isolation.  Once the run of an existing directory is over,
\* every discovered document was visited, the output was written, it holds
\* what a run of the directory without the failing documents (unreadable, no
\* header, servings no number) writes, and no document whose header declares
\* a non-numeric servings has a record.
C1_FailureIsolation ==
    pc = "done" =>
        /\ Range(Processed) = Discovered
        /\ Len(Processed) = Cardinality(Discovered)
        /\ writes = 1
        /\ out_file.exists
        /\ out_file.data =
               RunOutput(Restrict(files, {n \in DOMAIN files : ~Failing(files, n)}))
        /\ \A n \in Discovered :
               DeclaresBadServings(files[n].lines) => n \notin Range(Sources)

C1_Witness ==
    /\ pc = "done"
    /\ \E n \in Discovered : files[n].readable /\ DeclaresBadServings(files[n].lines)
    /\ \E n \in Discovered : ~files[n].readable
    /\ Len(out_file.data) >= 1

\* C5: ordering and template exclusion.  Once the run is over the records are
\* in ascending file-name order of their documents, none comes from the
\* template or from a file without the .qmd extension, no document has two
\* records, and the record ids are pairwise distinct.
C5_OrderedDistinctIds ==
    pc = "done" =>
        /\ Len(Sources) = Len(out_file.data)
        /\ Ascending(Sources)
        /\ \A i \in DOMAIN Sources :
               Sources[i] # TemplateName /\ HasQmdExtension(Sources[i])
        /\ Distinct(Sources)
        /\ Distinct([i \in DOMAIN out_file.data |-> out_file.data[i].id])

\* C6: once the run is over, each record comes from one discovered document
\* of its own, for which the header parser returned a mapping; a discovered
\* document without a header block was warned about and has no record, and
\* every discovered document was visited.
C6_RecordsHaveHeaders ==
    pc = "done" =>
        /\ Len(Sources) = Len(out_file.data)
        /\ Distinct(Sources)
        /\ \A i \in DOMAIN Sources :
               /\ Sources[i] \in Discovered
               /\ i <= Len(out_file.data)
               /\ out_file.data[i].id = generate_recipe_id(Sources[i])
               /\ parse_yaml_frontmatter(files[Sources[i]].lines).kind = "ok"
               /\ ~NoHeaderBlock(files[Sources[i]].lines)
        /\ \A n \in Discovered :
               (files[n].readable /\ NoHeaderBlock(files[n].lines))
                   => n \notin Range(Sources) /\ n \in Range(Warned)
        /\ Range(Processed) = Discovered

C6_Witness ==
    /\ pc = "done"
    /\ \E n \in Discovered : files[n].readable /\ NoHeaderBlock(files[n].lines)
    /\ Len(out_file.data) >= 2

\* What holds of every state of a run
C7_State ==
    /\ writes <= 1
    /\ pc = "done" => writes = 1
    /\ pc = "returned" =>
           ~recipes_dir_exists /\ writes = 0 /\ Range(Tagged(log, "ERROR")) # {}
    /\ ~recipes_dir_exists => Processed = <<>> /\ pc \in {"start", "returned"}

\* What holds of every step of a run
C7_Step ==
    /\ ~recipes_dir_exists =>
           out_file' = out_file /\ parent_exists' = parent_exists /\ writes' = writes
    /\ (writes' # writes \/ out_file' # out_file) =>
           /\ writes = 0
           /\ todo = <<>>
           /\ Range(Processed) = Discovered
           /\ out_file' = [exists |-> TRUE, data |-> recipes]

\* C7: without the input directory the run reports an error and ends: it
\* visits no document, creates no parent directory and leaves the output file
\* as it was.  With it, the output file is written once, and only when every
\* discovered document has been visited.
C7_FatalAndSingleWrite == [][C7_State /\ C7_State' /\ C7_Step]_vars

C7_Witness ==
    /\ pc = "returned"
    /\ ~recipes_dir_exists
    /\ ~parent_exists
    /\ ~out_file.exists
    /\ log # <<>>

\* ------------------------------------------------------------ the header parser's loop

\* The most lines of a header block
MaxHeaderLines == 4

HeaderLines ==
    {Scalar("title", "v"), Inline("title", <<"a", "b">>), Empty("title"),
     Scalar("categories", "v"), Inline("categories", <<"a", "b">>),
     Empty("categories"), Empty(""), Dash("x"), Text}

SeqsUpTo(S, n) == UNION {[1..m -> S] : m \in 0..n}

FMInit ==
    /\ fm_input \in SeqsUpTo(HeaderLines, MaxHeaderLines)
    /\ fm_i = 0
    /\ fm = FMStart

FMOnly == UNCHANGED <<run_vars, ing_vars, rec_vars>>

\* The loop is at a line: no exception so far, lines left
FMAt(line) ==
    ~fm.raised /\ fm_i < Len(fm_input) /\ line = fm_input[fm_i + 1]

FMAdvance ==
    /\ fm' = FMLine(fm, fm_input[fm_i + 1])
    /\ fm_i' = fm_i + 1
    /\ UNCHANGED fm_input
    /\ FMOnly

\* lines 37-41: key: [a, b]
FMInlineList ==
    /\ \E line \in HeaderLines : FMAt(line) /\ IsKeyLine(line) /\ line.form = "inline"
    /\ FMAdvance

\* lines 42-44: key: value
FMScalar ==
    /\ \E line \in HeaderLines : FMAt(line) /\ IsKeyLine(line) /\ line.form = "scalar"
    /\ FMAdvance

\* lines 45-49: key: with nothing after it
FMStartList ==
    /\ \E line \in HeaderLines : FMAt(line) /\ IsKeyLine(line) /\ line.form = "empty"
    /\ FMAdvance

\* lines 52-55: a dash line in list mode, appended to the current key's list
FMListItem ==
    /\ \E line \in HeaderLines :
          FMAt(line) /\ ~IsKeyLine(line) /\ StartsWithDash(line) /\ fm.list_mode
    /\ Truthy(fm.current_key)
    /\ fm.metadata[fm.current_key[1]].list
    /\ FMAdvance

\* line 55: the current key now holds a string, append raises
FMListItemRaises ==
    /\ \E line \in HeaderLines :
          FMAt(line) /\ ~IsKeyLine(line) /\ StartsWithDash(line) /\ fm.list_mode
    /\ Truthy(fm.current_key)
    /\ ~fm.metadata[fm.current_key[1]].list
    /\ FMAdvance

\* lines 52-54: a dash line in list mode, the current key being ''
FMListItemNoKey ==
    /\ \E line \in HeaderLines :
          FMAt(line) /\ ~IsKeyLine(line) /\ StartsWithDash(line) /\ fm.list_mode
    /\ ~Truthy(fm.current_key)
    /\ FMAdvance

\* neither branch: a dash line outside list mode, any other line
FMSkip ==
    /\ \E line \in HeaderLines :
          FMAt(line) /\ ~IsKeyLine(line) /\ ~(StartsWithDash(line) /\ fm.list_mode)
    /\ FMAdvance

FMNext ==
    \/ FMInlineList
    \/ FMScalar
    \/ FMStartList
    \/ FMListItem
    \/ FMListItemRaises
    \/ FMListItemNoKey
    \/ FMSkip

InitFM == RunIdle /\ FMInit /\ IngIdle /\ RecIdle
SpecFM == InitFM /\ [][FMNext]_vars

\* The dash items that follow line i
DashItemsAfter(lines, i) ==
    {lines[j].val[1] : j \in {x \in (i + 1)..Len(lines) : lines[x].k = "dash"}}

\* Whether value is what the declaration at line i stands for: its scalar,
\* the elements of its inline list, or for an empty value a list of items
\* of dash lines that follow it
Declares(lines, i, value) ==
    IF lines[i].form = "scalar" THEN value = StrVal(lines[i].val[1])
    ELSE IF lines[i].form = "inline" THEN value = ListVal(lines[i].val)
    ELSE /\ value.list
         /\ \A x \in DOMAIN value.v : value.v[x] \in DashItemsAfter(lines, i)

LastDeclaration(lines, key) ==
    Max({i \in DOMAIN lines : IsKeyLine(lines[i]) /\ lines[i].key = key})

DeclaredKeys(lines) == {lines[i].key : i \in {j \in DOMAIN lines : IsKeyLine(lines[j])}}

\* C8: the header parser never fails, and once it has read the block each
\* declared key holds the value of its last declaration.
C8_TotalLastWriteWins ==
    /\ ~fm.raised
    /\ fm_i = Len(fm_input) =>
           /\ DOMAIN fm.metadata = DeclaredKeys(fm_input)
           /\ \A key \in DeclaredKeys(fm_input) :
                  Declares(fm_input, LastDeclaration(fm_input, key), fm.metadata[key])

\* What one iteration of the loop may change
C9_Step ==
    (fm_i' = fm_i + 1) =>
        LET line == fm_input[fm_i + 1]
            changed == {key \in DOMAIN fm'.metadata :
                           key \notin DOMAIN fm.metadata
                               \/ fm'.metadata[key] # fm.metadata[key]}
            noEmptyBefore == ~\E j \in 1..fm_i :
                                 IsKeyLine(fm_input[j]) /\ fm_input[j].form = "empty"
            afterValue == /\ fm_i >= 1
                          /\ IsKeyLine(fm_input[fm_i])
                          /\ fm_input[fm_i].form \in {"scalar", "inline"}
        IN  /\ (line.k = "dash" /\ changed # {}) =>
                   /\ fm.list_mode
                   /\ changed = {fm.current_key[1]}
            /\ (line.k = "dash" /\ (noEmptyBefore \/ afterValue)) =>
                   fm'.metadata = fm.metadata
            /\ line.k \notin {"dash", "kv"} => fm'.metadata = fm.metadata

\* C9: a dash line is appended to a key's list only while that key is the
\* current list key in list mode, and then to that list alone; after a
\* key/value line with a scalar or inline-list value, or before any
\* empty-value key, a dash line changes nothing; a line that is neither
\* key/value nor dash-prefixed changes nothing.
C9_ListMode == [][C9_Step]_vars

\* ------------------------------------------------------------ the ingredient extractor

\* The most lines of a text given to extract_ingredients
MaxTextLines == 4

TextLines ==
    {Heading(1, Ing), Heading(2, Ing), Heading(3, Ing), Heading(2, "INGREDIENTS"),
     Heading(1, "Preparation"), Heading(2, "Preparation"), Heading(3, "Preparation"),
     Dash("x"), Dash("y"), Dash(""), Blank, Text}

IngInit ==
    /\ ing_input \in SeqsUpTo(TextLines, MaxTextLines)
    /\ ing_pc = "search"
    /\ ing_section = <<>>
    /\ ingredients = <<>>

IngOnly == UNCHANGED <<run_vars, fm_vars, rec_vars>>

\* lines 63-65: no match, return []
IngNoMatch ==
    /\ ing_pc = "search"
    /\ ~IngredientsSection(ing_input).found
    /\ ing_pc' = "done"
    /\ UNCHANGED <<ing_input, ing_section, ingredients>>
    /\ IngOnly

\* lines 63-70: the section is group 1 of the match
IngMatch ==
    /\ ing_pc = "search"
    /\ IngredientsSection(ing_input).found
    /\ ing_section' = IngredientsSection(ing_input).section
    /\ ing_pc' = "loop"
    /\ UNCHANGED <<ing_input, ingredients>>
    /\ IngOnly

\* lines 71-76: a dash line with something after the dash
IngAppend ==
    /\ ing_pc = "loop"
    /\ ing_section # <<>>
    /\ StartsWithDash(Head(ing_section)) /\ AfterDash(Head(ing_section)) # ""
    /\ ingredients' = IngLine(ingredients, Head(ing_section))
    /\ ing_section' = Tail(ing_section)
    /\ UNCHANGED <<ing_input, ing_pc>>
    /\ IngOnly

\* lines 71-75: any other line of the section
IngSkip ==
    /\ ing_pc = "loop"
    /\ ing_section # <<>>
    /\ ~(StartsWithDash(Head(ing_section)) /\ AfterDash(Head(ing_section)) # "")
    /\ ingredients' = IngLine(ingredients, Head(ing_section))
    /\ ing_section' = Tail(ing_section)
    /\ UNCHANGED <<ing_input, ing_pc>>
    /\ IngOnly

\* line 78
IngReturn ==
    /\ ing_pc = "loop"
    /\ ing_section = <<>>
    /\ ing_pc' = "done"
    /\ UNCHANGED <<ing_input, ing_section, ingredients>>
    /\ IngOnly

IngNext ==
    \/ IngNoMatch
    \/ IngMatch
    \/ IngAppend
    \/ IngSkip
    \/ IngReturn

InitIng == RunIdle /\ FMIdle /\ IngInit /\ RecIdle
SpecIng == InitIng /\ [][IngNext]_vars

\* The Ingredients heading of a text: its first heading of two hashes or
\* more with that label
IngHeadings(lines) ==
    {i \in DOMAIN lines :
        lines[i].k = "head" /\ lines[i].d >= 2 /\ Lower(lines[i].val[1]) = "ingredients"}

\* The last line of the span that the heading at line h opens: the line
\* before the next heading of the same or a shallower depth, or the last line
SpanEnd(lines, h) ==
    LET next == {j \in (h + 1)..Len(lines) :
                    lines[j].k = "head" /\ lines[j].d <= lines[h].d}
    IN  IF next = {} THEN Len(lines) ELSE Min(next) - 1

RECURSIVE DashItems(_)
DashItems(lines) ==
    IF lines = <<>> THEN <<>>
    ELSE IF Head(lines).k = "dash" /\ Head(lines).val[1] # ""
    THEN <<Head(lines).val[1]>> \o DashItems(Tail(lines))
    ELSE DashItems(Tail(lines))

\* C3: for a text with an Ingredients heading, extract_ingredients returns
\* the items of the non-blank dash lines between that heading and the next
\* heading of the same or a shallower depth (or the end), in order, and
\* nothing else.
C3_SectionSpan ==
    (ing_pc = "done" /\ IngHeadings(ing_input) # {}) =>
        LET h == Min(IngHeadings(ing_input))
        IN  ingredients = DashItems(SubSeq(ing_input, h + 1, SpanEnd(ing_input, h)))

\* ------------------------------------------------------------ the record builder

\* The most lines between the markers of a file given to parse_recipe_file
MaxRecordHeaderLines == 3

RecordHeaderLines ==
    {Scalar("title", "Soup"), Inline("title", <<"a", "b">>), Empty("title"),
     Scalar("categories", "dinner"), Inline("categories", <<"dinner", "easy">>),
     Inline("categories", <<>>), Empty("categories"),
     Scalar("servings", "2"), Scalar("servings", "abc"), Empty("servings"),
     Scalar("author", "x"), Dash("x"), Blank}

RecordBodies == {<<Blank>>, <<Heading(2, Ing), Dash("2 carrots"), Dash("1 onion"), Blank>>}

\* A header between its two markers and a body, or the same without the
\* opening marker
RecordTexts ==
    {<<Marker>> \o h \o <<Marker>> \o b :
        h \in SeqsUpTo(RecordHeaderLines, MaxRecordHeaderLines), b \in RecordBodies}
    \cup
    {h \o <<Marker>> \o b :
        h \in SeqsUpTo(RecordHeaderLines, 1), b \in RecordBodies}

RecInit ==
    /\ rec_doc \in
           {[name |-> <<"a", ".", "qmd">>, readable |-> TRUE, lines |-> t] : t \in RecordTexts}
           \cup {[name |-> <<"a", ".", "qmd">>, readable |-> FALSE, lines |-> <<>>]}
    /\ rec_pc = "read"
    /\ rec_metadata = <<>>
    /\ rec_ingredients = <<>>
    /\ rec_result = [kind |-> "none", recipe |-> <<>>]

RecOnly == UNCHANGED <<run_vars, fm_vars, ing_vars>>

\* lines 89-90 raise, lines 112-114 report the error
RecReadFails ==
    /\ rec_pc = "read"
    /\ ~rec_doc.readable
    /\ rec_result' = parse_recipe_file(rec_doc)
    /\ rec_pc' = "done"
    /\ UNCHANGED <<rec_doc, rec_metadata, rec_ingredients>>
    /\ RecOnly

\* lines 93-96: no front matter, or an empty mapping: the warning
RecNoFrontmatter ==
    /\ rec_pc = "read"
    /\ rec_doc.readable
    /\ parse_yaml_frontmatter(rec_doc.lines).kind # "raise"
    /\ NoMetadata(parse_yaml_frontmatter(rec_doc.lines))
    /\ rec_result' = parse_recipe_file(rec_doc)
    /\ rec_pc' = "done"
    /\ UNCHANGED <<rec_doc, rec_metadata, rec_ingredients>>
    /\ RecOnly

\* line 93 raises, lines 112-114 report the error
RecParserRaises ==
    /\ rec_pc = "read"
    /\ rec_doc.readable
    /\ parse_yaml_frontmatter(rec_doc.lines).kind = "raise"
    /\ rec_result' = parse_recipe_file(rec_doc)
    /\ rec_pc' = "done"
    /\ UNCHANGED <<rec_doc, rec_metadata, rec_ingredients>>
    /\ RecOnly

\* lines 93-99: the mapping and the ingredients
RecParse ==
    /\ rec_pc = "read"
    /\ rec_doc.readable
    /\ parse_yaml_frontmatter(rec_doc.lines).kind = "ok"
    /\ ~NoMetadata(parse_yaml_frontmatter(rec_doc.lines))
    /\ rec_metadata' = parse_yaml_frontmatter(rec_doc.lines).metadata
    /\ rec_ingredients' = extract_ingredients(rec_doc.lines)
    /\ rec_pc' = "build"
    /\ UNCHANGED <<rec_doc, rec_result>>
    /\ RecOnly

\* lines 105-106 raise (IndexError, ValueError, TypeError), lines 112-114
RecBuildRaises ==
    /\ rec_pc = "build"
    /\ BuildRaises(rec_metadata)
    /\ rec_result' = parse_recipe_file(rec_doc)
    /\ rec_pc' = "done"
    /\ UNCHANGED <<rec_doc, rec_metadata, rec_ingredients>>
    /\ RecOnly

\* lines 102-110: the record
RecBuild ==
    /\ rec_pc = "build"
    /\ ~BuildRaises(rec_metadata)
    /\ rec_result' =
           [kind |-> "record",
            recipe |-> <<BuildRecipe(rec_doc.name, rec_metadata, rec_ingredients)>>]
    /\ rec_pc' = "done"
    /\ UNCHANGED <<rec_doc, rec_metadata, rec_ingredients>>
    /\ RecOnly

RecNext ==
    \/ RecReadFails
    \/ RecNoFrontmatter
    \/ RecParserRaises
    \/ RecParse
    \/ RecBuildRaises
    \/ RecBuild

InitRec == RunIdle /\ FMIdle /\ IngIdle /\ RecInit
SpecRec == InitRec /\ [][RecNext]_vars

\* The lines between the opening marker and the next marker line
HeaderBlock(lines) ==
    SubSeq(lines, 2, Min({m \in 2..Len(lines) : lines[m].k = "marker"}) - 1)

DeclaresKey(lines, key) ==
    \E i \in DOMAIN lines : lines[i].k = "kv" /\ lines[i].key = key

\* C2: a file with a header block that declares none of title, categories
\* and servings yields a record with the title 'Sans titre', the category
\* 'autre' and 4 servings.
C2_Defaults ==
    (/\ rec_pc = "done"
     /\ rec_doc.readable
     /\ ~NoHeaderBlock(rec_doc.lines)
     /\ \A key \in {"title", "categories", "servings"} :
            ~DeclaresKey(HeaderBlock(rec_doc.lines), key))
    => /\ rec_result.kind = "record"
       /\ rec_result.recipe[1].title = StrVal("Sans titre")
       /\ rec_result.recipe[1].category = "autre"
       /\ rec_result.recipe[1].servings = 4

\* C4: every record has exactly the fields id, title, category, servings and
\* ingredients; title and category are strings, servings is an integer,
\* ingredients is a sequence.
C4_Schema ==
    (rec_pc = "done" /\ rec_result.kind = "record") =>
        LET r == rec_result.recipe[1]
        IN  /\ DOMAIN r = {"id", "title", "category", "servings", "ingredients"}
            /\ ~r.title.list
            /\ r.category \in STRING
            /\ r.servings \in Int
            /\ DOMAIN r.ingredients = 1..Len(r.ingredients)

\* C10: a file whose mapping holds a list under categories yields a record
\* whose category is the first element of the list; a scalar under
\* categories is the category; without categories the category is 'autre'.
\* (Files whose servings does not read as an integer are left aside.)
C10_Category ==
    LET parsed == parse_yaml_frontmatter(rec_doc.lines)
        has == "categories" \in DOMAIN parsed.metadata
    IN  (/\ rec_pc = "done"
         /\ rec_doc.readable
         /\ parsed.kind = "ok"
         /\ parsed.metadata # <<>>
         /\ ~ServingsRaises(parsed.metadata))
        => /\ rec_result.kind = "record"
           /\ (has /\ parsed.metadata["categories"].list) =>
                  /\ parsed.metadata["categories"].v # <<>>
                  /\ rec_result.recipe[1].category = Head(parsed.metadata["categories"].v)
           /\ (has /\ ~parsed.metadata["categories"].list) =>
                  rec_result.recipe[1].category = parsed.metadata["categories"].v[1]
           /\ ~has => rec_result.recipe[1].category = "autre"

====
